---------------------------- MODULE Spec2Model ----------------------------
(***************************************************************************)
(* A model of the invoice application in src/app.py: the money formatter   *)
(* fmt_money, the Korean font registration, the PDF composer generate_pdf, *)
(* the built-in sample record and the Create-Invoice form.                 *)
(*                                                                         *)
(* Numbers.  A Python float that holds money is modelled exactly, as an    *)
(* integer count of 1/Den units with Den a power of two: every modelled    *)
(* amount is a binary fraction, which a float holds without error, and     *)
(* the inputs are chosen so that every product, sum and percentage the     *)
(* program computes on them is again such a fraction.                      *)
(* Text.  A formatted number is a sequence of one-character strings; the   *)
(* currency symbol is one element of it.  The four symbols are written     *)
(* "Won", "$", "Euro", "Yen".                                              *)
(***************************************************************************)
EXTENDS Integers, Sequences, FiniteSets, TLC

VARIABLES
    fmt_value, fmt_symbol, fmt_out,          \* the latest fmt_money call
    _FONT_REGISTERED, _KO_FONT_NAME, _KO_FONT_NAME_BOLD,  \* module globals
    registered,                              \* names known to pdfmetrics
    files, corrupt, download,                \* the font environment
    register_returned,     \* a call of _register_korean_font has returned
    pending,               \* the arguments of a generate_pdf call to come
    calls,                 \* the generate_pdf calls of the latest step
    lang_code, currency_select,   \* the sidebar selections
    item_count,            \* st.session_state.item_count
    item_widgets,          \* the item inputs: row i of the form is item_widgets[i + 1]
    from_company, to_company, tax_rate_input,
    shown,                 \* the items and totals the latest run computed and showed
    message,               \* what the Generate handler showed in the latest run
    clicks,                \* the add and remove clicks made so far
    thread_pc,             \* where each thread stands in _register_korean_font
    body_runs              \* the threads that ran the registration body

fmtVars  == <<fmt_value, fmt_symbol, fmt_out>>
fontVars == <<_FONT_REGISTERED, _KO_FONT_NAME, _KO_FONT_NAME_BOLD, registered,
              files, corrupt, register_returned>>
pdfVars  == <<pending, calls>>
formVars == <<lang_code, currency_select, item_count, item_widgets, from_company,
              to_company, tax_rate_input, shown, message, clicks>>
threadVars == <<thread_pc, body_runs>>
vars     == <<fmtVars, fontVars, download, pdfVars, formVars, threadVars>>

---------------------------------------------------------------------------
(* Bounds of the model *)

\* every integer part 0..MaxInt is formatted
MaxInt == 2
\* integer parts 10^k - 1, 10^k and 10^k + 1 are formatted for k in 1..MaxDigits
MaxDigits == 6

\* the unit of the modelled amounts is 1/Den
Den == 2^5

Abs(n) == IF n < 0 THEN -n ELSE n

---------------------------------------------------------------------------
(* CURRENCY_SYMBOLS and fmt_money *)

Won  == "Won"
Yen  == "Yen"
Euro == "Euro"
Dollar == "$"

CURRENCY_SYMBOLS ==
    [c \in {"KRW", "USD", "EUR", "JPY"} |->
        CASE c = "KRW" -> Won
          [] c = "USD" -> Dollar
          [] c = "EUR" -> Euro
          [] c = "JPY" -> Yen]

Digit(d) == <<"0", "1", "2", "3", "4", "5", "6", "7", "8", "9">>[d + 1]

\* the decimal digits of a natural number, most significant first
RECURSIVE DecimalDigits(_)
DecimalDigits(n) ==
    IF n < 10 THEN <<Digit(n)>>
    ELSE Append(DecimalDigits(n \div 10), Digit(n % 10))

\* the ',' option of the format specification: groups of three from the right
RECURSIVE Grouped(_)
Grouped(ds) ==
    IF Len(ds) <= 3 THEN ds
    ELSE Grouped(SubSeq(ds, 1, Len(ds) - 3)) \o <<",">>
         \o SubSeq(ds, Len(ds) - 2, Len(ds))

\* mag / Den rounded to prec decimal places the way float formatting
\* rounds, to the nearest and an exact tie to the even neighbour:
\* <<integer part, count of 10^-prec in the fraction>>
RoundHalfEven(mag, prec) ==
    LET ip  == mag \div Den
        q   == ((mag % Den) * 10^prec) \div Den
        r   == ((mag % Den) * 10^prec) % Den
        odd == IF prec = 0 THEN ip % 2 = 1 ELSE q % 2 = 1
        up  == 2 * r > Den \/ (2 * r = Den /\ odd)
        fq  == IF up THEN q + 1 ELSE q
    IN  IF fq = 10^prec THEN <<ip + 1, 0>> ELSE <<ip, fq>>

\* digits left-padded with "0" to a width
RECURSIVE ZeroPad(_, _)
ZeroPad(ds, width) ==
    IF Len(ds) >= width THEN ds ELSE ZeroPad(<<"0">> \o ds, width)

\* f"{value:,.<prec>f}": sign, grouped integer digits, '.' and prec digits
FormatFixed(value, prec) ==
    LET rounded == RoundHalfEven(Abs(value), prec)
        ip      == rounded[1]
        fp      == rounded[2]
        sign   == IF value < 0 THEN <<"-">> ELSE <<>>
        frac   == IF prec = 0 THEN <<>>
                  ELSE <<".">> \o ZeroPad(DecimalDigits(fp), prec)
    IN  sign \o Grouped(DecimalDigits(ip)) \o frac

fmt_money_wrong_places(value, symbol) ==
    IF symbol \in {Won} THEN <<symbol>> \o FormatFixed(value, 0)
    ELSE <<symbol>> \o FormatFixed(value, 2)

fmt_money(value, symbol) ==
    IF symbol \in {Won, Yen} THEN <<symbol>> \o FormatFixed(value, 0)
    ELSE <<symbol>> \o FormatFixed(value, 2)

---------------------------------------------------------------------------
(* Korean font registration *)

\* The font environment.  files: the font files that exist; corrupt: the
\* files TTFont cannot load (registerFont raises); download: what the
\* download from Google Fonts does when it is attempted: whether it raises,
\* which cache files it has written by then, and which of those are bad.
CacheRegular == "~/.cache/invoice-app-fonts/NanumGothic-Regular.ttf"
CacheBold    == "~/.cache/invoice-app-fonts/NanumGothic-Bold.ttf"
\* Python's None, also what d.get(k) gives for a missing key
None         == "None"

candidates ==
    << <<CacheRegular, CacheBold>>,
       <<"/System/Library/Fonts/Supplemental/AppleSDGothicNeo.ttc", None>>,
       <<"/System/Library/Fonts/AppleSDGothicNeo.ttc", None>>,
       <<"/Library/Fonts/NanumGothic.ttf", "/Library/Fonts/NanumGothicBold.ttf">>,
       <<"/usr/share/fonts/truetype/nanum/NanumGothic.ttf",
         "/usr/share/fonts/truetype/nanum/NanumGothicBold.ttf">> >>

FontPaths ==
    UNION {{candidates[i][1], candidates[i][2]} : i \in DOMAIN candidates}
    \ {None}

Downloads ==
    {d \in [raises : BOOLEAN,
            writes : SUBSET {CacheRegular, CacheBold},
            bad    : SUBSET {CacheRegular, CacheBold}] :
        d.bad \subseteq d.writes}

\* The globals and the environment as one value g, so that the steps of
\* the registration are operators from g to g.
Globals ==
    [FONT_REGISTERED   |-> _FONT_REGISTERED,
     KO_FONT_NAME      |-> _KO_FONT_NAME,
     KO_FONT_NAME_BOLD |-> _KO_FONT_NAME_BOLD,
     registered        |-> registered,
     files             |-> files,
     corrupt           |-> corrupt]

SetGlobals(g) ==
    /\ _FONT_REGISTERED'   = g.FONT_REGISTERED
    /\ _KO_FONT_NAME'      = g.KO_FONT_NAME
    /\ _KO_FONT_NAME_BOLD' = g.KO_FONT_NAME_BOLD
    /\ registered'         = g.registered
    /\ files'              = g.files
    /\ corrupt'            = g.corrupt

\* pdfmetrics.registerFont(TTFont(name, path)) raises for a file it cannot load
RegisterFontRaises(g, path) == path \in g.corrupt

\* _try_register(regular_path, bold_path): <<returned value, globals after>>
_try_register(g, regular_path, bold_path) ==
    IF regular_path \notin g.files THEN <<FALSE, g>>
    ELSE IF RegisterFontRaises(g, regular_path) THEN <<FALSE, g>>
    ELSE
      LET g1 == [g EXCEPT !.registered = @ \cup {"KoreanFont"},
                          !.KO_FONT_NAME = "KoreanFont"]
      IN  IF bold_path # None /\ bold_path \in g.files
          THEN IF RegisterFontRaises(g, bold_path)
               THEN <<TRUE, [g1 EXCEPT !.KO_FONT_NAME_BOLD = "KoreanFont"]>>
               ELSE <<TRUE, [g1 EXCEPT !.registered = @ \cup {"KoreanFontBold"},
                                       !.KO_FONT_NAME_BOLD = "KoreanFontBold"]>>
          ELSE <<TRUE, [g1 EXCEPT !.KO_FONT_NAME_BOLD = "KoreanFont"]>>

\* _download_nanum_font(cache_dir): <<returned value, globals after>>
_download_nanum_font(g, d) ==
    IF CacheRegular \in g.files THEN <<TRUE, g>>
    ELSE
      LET g1 == [g EXCEPT !.files = @ \cup d.writes,
                          !.corrupt = (@ \ d.writes) \cup d.bad]
      IN  IF d.raises THEN <<FALSE, g1>>
          ELSE <<CacheRegular \in g1.files, g1>>

\* the loop over the candidates, from candidate i on: the globals after the
\* first candidate that registers, with _FONT_REGISTERED set; otherwise g
RECURSIVE TryCandidates(_, _)
TryCandidates(g, i) ==
    IF i > Len(candidates) THEN g
    ELSE LET r == _try_register(g, candidates[i][1], candidates[i][2])
         IN  IF r[1] THEN [r[2] EXCEPT !.FONT_REGISTERED = TRUE]
             ELSE TryCandidates(r[2], i + 1)

_register_korean_font_unchecked_bold(g, d) ==
    IF g.FONT_REGISTERED THEN g
    ELSE
      LET fallback == [g EXCEPT !.FONT_REGISTERED = TRUE]
          hit == \E i \in DOMAIN candidates : candidates[i][1] \in g.files
      IN  IF hit THEN [fallback EXCEPT !.KO_FONT_NAME = "KoreanFont",
                                       !.KO_FONT_NAME_BOLD = "KoreanFontBold"]
          ELSE fallback

\* _register_korean_font(): the globals after the call
_register_korean_font(g, d) ==
    IF g.FONT_REGISTERED THEN g
    ELSE
      LET g1 == TryCandidates(g, 1)
      IN  IF g1.FONT_REGISTERED THEN g1
          ELSE
            LET dl == _download_nanum_font(g1, d)
                fallback == [dl[2] EXCEPT !.FONT_REGISTERED = TRUE]
            IN  IF dl[1]
                THEN LET r == _try_register(dl[2], CacheRegular, CacheBold)
                     IN  IF r[1] THEN [r[2] EXCEPT !.FONT_REGISTERED = TRUE]
                         ELSE fallback
                ELSE fallback

---------------------------------------------------------------------------
(* LABELS and generate_pdf *)

PdfLabelKeys ==
    {"pdf_header", "invoice_no", "issue_date", "due_date", "from_title",
     "to_title", "business_no", "item_name", "qty", "unit_price", "amount",
     "subtotal", "tax", "total", "payment_title", "bank_name", "account_no",
     "account_holder", "notes_title", "pdf_footer"}

\* The labels generate_pdf reads.  The English texts are those of the
\* table; a Korean text is written as its key prefixed by "ko/".
LABELS ==
    [l \in {"ko", "en"} |->
      IF l = "ko"
      THEN [pdf_header |-> "ko/pdf_header", invoice_no |-> "ko/invoice_no",
            issue_date |-> "ko/issue_date", due_date |-> "ko/due_date",
            from_title |-> "ko/from_title", to_title |-> "ko/to_title",
            business_no |-> "ko/business_no", item_name |-> "ko/item_name",
            qty |-> "ko/qty", unit_price |-> "ko/unit_price",
            amount |-> "ko/amount", subtotal |-> "ko/subtotal",
            tax |-> "ko/tax", total |-> "ko/total",
            payment_title |-> "ko/payment_title",
            bank_name |-> "ko/bank_name", account_no |-> "ko/account_no",
            account_holder |-> "ko/account_holder",
            notes_title |-> "ko/notes_title", pdf_footer |-> "ko/pdf_footer"]
      ELSE [pdf_header |-> "INVOICE", invoice_no |-> "Invoice No.",
            issue_date |-> "Issue Date", due_date |-> "Due Date",
            from_title |-> "From", to_title |-> "To",
            business_no |-> "Business Reg. No.", item_name |-> "Item",
            qty |-> "Qty", unit_price |-> "Unit Price",
            amount |-> "Amount", subtotal |-> "Subtotal",
            tax |-> "Tax", total |-> "Total",
            payment_title |-> "Payment Information",
            bank_name |-> "Bank Name", account_no |-> "Account No.",
            account_holder |-> "Account Holder",
            notes_title |-> "Notes / Memo",
            pdf_footer |-> "Thank you for your business!"]]

\* Python truth of a str-or-None value: d.get(k) is None for a missing key
Truthy(v) == v # None /\ v # ""

\* The flowables.  A line of text is a sequence of tokens (markup, labels,
\* values, the characters of a formatted amount); a Paragraph holds the
\* lines that "<br/>" separates; a Table holds rows of cells.
Cell(style, font, lines) == [style |-> style, font |-> font, lines |-> lines]

Paragraph(section, style, font, lines) ==
    [section |-> section, kind |-> "Paragraph", style |-> style,
     font |-> font, lines |-> lines, rows |-> <<>>]

Spacer(section) ==
    [section |-> section, kind |-> "Spacer", style |-> "",
     font |-> "", lines |-> <<>>, rows |-> <<>>]

Table(section, rows) ==
    [section |-> section, kind |-> "Table", style |-> "",
     font |-> "", lines |-> <<>>, rows |-> rows]

Bold(tokens) == <<"<b>">> \o tokens \o <<"</b>">>

\* str() of a float that holds a whole number, as the tax rate does here
StrFloat(n) == DecimalDigits(n) \o <<".", "0">>

\* the lines a condition contributes to a "<br/>"-joined list
LineIf(cond, line) == IF cond THEN <<line>> ELSE <<>>

_party_block_by_language(L, fn, title, d) ==
    Cell("Norm", fn,
         <<Bold(<<title>>)>>
         \o LineIf(Truthy(d.company), <<d.company>>)
         \o LineIf(Truthy(d.business_no) /\ L = LABELS["ko"],
                   <<L.business_no, ": ", d.business_no>>)
         \o LineIf(Truthy(d.address), <<d.address>>)
         \o LineIf(Truthy(d.email), <<d.email>>)
         \o LineIf(Truthy(d.phone), <<d.phone>>))

_party_block(L, fn, title, d) ==
    Cell("Norm", fn,
         <<Bold(<<title>>)>>
         \o LineIf(Truthy(d.company), <<d.company>>)
         \o LineIf(Truthy(d.business_no), <<L.business_no, ": ", d.business_no>>)
         \o LineIf(Truthy(d.address), <<d.address>>)
         \o LineIf(Truthy(d.email), <<d.email>>)
         \o LineIf(Truthy(d.phone), <<d.phone>>))

HeaderElements(L, fn_bold) ==
    << Paragraph("header", "Title2", fn_bold, <<<<L.pdf_header>>>>),
       Spacer("header") >>

MetaElements(L, fn, data) ==
    << Table("meta",
         << << Cell("Norm", fn, <<Bold(<<L.invoice_no, ":">>) \o <<" ", data.invoice_no>>>>),
               Cell("Norm", fn, <<Bold(<<L.issue_date, ":">>) \o <<" ", data.issue_date>>>>),
               Cell("Norm", fn, <<Bold(<<L.due_date, ":">>) \o <<" ", data.due_date>>>>) >> >>),
       Spacer("meta") >>

PartyElements(L, fn, data) ==
    << Table("party",
         << << _party_block(L, fn, L.from_title, data.from),
               _party_block(L, fn, L.to_title, data.to) >> >>),
       Spacer("party") >>

ItemRow(fn, sym, idx, item) ==
    << Cell("Norm", fn, <<DecimalDigits(idx)>>),
       Cell("Norm", fn, <<<<item.name>>>>),
       Cell("NormR", fn, <<DecimalDigits(item.qty)>>),
       Cell("NormR", fn, <<fmt_money(item.unit_price, sym)>>),
       Cell("NormR", fn, <<fmt_money(item.amount, sym)>>) >>

ItemElements(L, fn, sym, data) ==
    LET header_row ==
          << Cell("Norm", fn, <<Bold(<<"#">>)>>),
             Cell("Norm", fn, <<Bold(<<L.item_name>>)>>),
             Cell("NormR", fn, <<Bold(<<L.qty>>)>>),
             Cell("NormR", fn, <<Bold(<<L.unit_price>>)>>),
             Cell("NormR", fn, <<Bold(<<L.amount>>)>>) >>
        item_rows ==
          <<header_row>>
          \o [idx \in 1 .. Len(data.items) |-> ItemRow(fn, sym, idx, data.items[idx])]
    IN  << Table("items", item_rows), Spacer("items") >>

TotalsElements_recomputed(L, fn, sym, data) ==
    LET blank == Cell("", "", <<>>)
        sub   == IF data.items = <<>> THEN 0
                 ELSE data.items[1].amount
                      + (IF Len(data.items) > 1 THEN data.items[2].amount ELSE 0)
    IN  << Table("totals",
             << << blank, Cell("NormR", fn, <<Bold(<<L.subtotal>>)>>),
                   Cell("NormR", fn, <<fmt_money(sub, sym)>>) >>,
                << blank,
                   Cell("NormR", fn,
                        <<Bold(<<L.tax, " (">> \o StrFloat(data.tax_rate) \o <<"%)">>)>>),
                   Cell("NormR", fn, <<fmt_money(data.tax, sym)>>) >>,
                << blank, Cell("NormR", fn, <<Bold(<<L.total>>)>>),
                   Cell("NormR", fn, <<Bold(fmt_money(sub + data.tax, sym))>>) >> >>),
           Spacer("totals") >>

TotalsElements(L, fn, sym, data) ==
    LET blank == Cell("", "", <<>>)
    IN  << Table("totals",
             << << blank, Cell("NormR", fn, <<Bold(<<L.subtotal>>)>>),
                   Cell("NormR", fn, <<fmt_money(data.subtotal, sym)>>) >>,
                << blank,
                   Cell("NormR", fn,
                        <<Bold(<<L.tax, " (">> \o StrFloat(data.tax_rate) \o <<"%)">>)>>),
                   Cell("NormR", fn, <<fmt_money(data.tax, sym)>>) >>,
                << blank, Cell("NormR", fn, <<Bold(<<L.total>>)>>),
                   Cell("NormR", fn, <<Bold(fmt_money(data.total, sym))>>) >> >>),
           Spacer("totals") >>

PaymentElements_always(L, fn, fn_bold, data) ==
    LET pay == data.payment
    IN  << Paragraph("payment", "Heading", fn_bold, <<Bold(<<L.payment_title>>)>>),
           Paragraph("payment", "Norm", fn,
                     LineIf(Truthy(pay.bank), <<L.bank_name, ": ", pay.bank>>)
                     \o LineIf(Truthy(pay.account_no), <<L.account_no, ": ", pay.account_no>>)
                     \o LineIf(Truthy(pay.holder), <<L.account_holder, ": ", pay.holder>>)),
           Spacer("payment") >>

PaymentElements(L, fn, fn_bold, data) ==
    LET pay == data.payment
    IN  IF \E k \in {"bank", "account_no", "holder"} : Truthy(pay[k])
        THEN << Paragraph("payment", "Heading", fn_bold, <<Bold(<<L.payment_title>>)>>),
                Paragraph("payment", "Norm", fn,
                          LineIf(Truthy(pay.bank), <<L.bank_name, ": ", pay.bank>>)
                          \o LineIf(Truthy(pay.account_no), <<L.account_no, ": ", pay.account_no>>)
                          \o LineIf(Truthy(pay.holder), <<L.account_holder, ": ", pay.holder>>)),
                Spacer("payment") >>
        ELSE <<>>

NotesElements(L, fn, fn_bold, data) ==
    IF Truthy(data.notes)
    THEN << Paragraph("notes", "Heading", fn_bold, <<Bold(<<L.notes_title>>)>>),
            Paragraph("notes", "Norm", fn, <<<<data.notes>>>>),
            Spacer("notes") >>
    ELSE <<>>

FooterElements(L, fn) ==
    << Spacer("footer"), Paragraph("footer", "Footer", fn, <<<<L.pdf_footer>>>>) >>

\* the fonts generate_pdf chooses for a language, given the globals
FontPair(g, lang) ==
    IF lang = "ko" THEN <<g.KO_FONT_NAME, g.KO_FONT_NAME_BOLD>>
    ELSE <<"Helvetica", "Helvetica-Bold">>

\* what a call returns or raises: raised names the exception (None when
\* the call returns), pdf is the document built (the elements, in order)
Returned(elements) == [raised |-> None, pdf |-> elements]
Raised(exc) == [raised |-> exc, pdf |-> <<>>]

BuildElements_notes_first(data, L, sym, fn, fn_bold) ==
    HeaderElements(L, fn_bold)
    \o MetaElements(L, fn, data)
    \o PartyElements(L, fn, data)
    \o ItemElements(L, fn, sym, data)
    \o TotalsElements(L, fn, sym, data)
    \o NotesElements(L, fn, fn_bold, data)
    \o PaymentElements(L, fn, fn_bold, data)
    \o FooterElements(L, fn)

\* the list elements, in the order of the appends
BuildElements(data, L, sym, fn, fn_bold) ==
    HeaderElements(L, fn_bold)
    \o MetaElements(L, fn, data)
    \o PartyElements(L, fn, data)
    \o ItemElements(L, fn, sym, data)
    \o TotalsElements(L, fn, sym, data)
    \o PaymentElements(L, fn, fn_bold, data)
    \o NotesElements(L, fn, fn_bold, data)
    \o FooterElements(L, fn)

generate_pdf_defaulting(data, lang, currency, g) ==
    LET L       == IF lang \in DOMAIN LABELS THEN LABELS[lang] ELSE LABELS["en"]
        sym     == IF currency \in DOMAIN CURRENCY_SYMBOLS
                   THEN CURRENCY_SYMBOLS[currency] ELSE Dollar
        fn      == FontPair(g, lang)[1]
        fn_bold == FontPair(g, lang)[2]
    IN  Returned(BuildElements(data, L, sym, fn, fn_bold))

\* generate_pdf(data, lang, currency), after _register_korean_font() has
\* left the globals g: LABELS[lang] and CURRENCY_SYMBOLS[currency] raise
\* KeyError for a key the table does not have
generate_pdf(data, lang, currency, g) ==
    IF lang \notin DOMAIN LABELS THEN Raised("KeyError")
    ELSE IF currency \notin DOMAIN CURRENCY_SYMBOLS THEN Raised("KeyError")
    ELSE
      LET L       == LABELS[lang]
          sym     == CURRENCY_SYMBOLS[currency]
          fn      == FontPair(g, lang)[1]
          fn_bold == FontPair(g, lang)[2]
      IN  Returned(BuildElements(data, L, sym, fn, fn_bold))

---------------------------------------------------------------------------
(* The amounts fmt_money is exercised on *)

Symbols == {CURRENCY_SYMBOLS[c] : c \in DOMAIN CURRENCY_SYMBOLS}

IntParts ==
    (0 .. MaxInt)
    \cup {10^k - 1 : k \in 1 .. MaxDigits}
    \cup {10^k     : k \in 1 .. MaxDigits}
    \cup {10^k + 1 : k \in 1 .. MaxDigits}
    \cup {1234, 1234567}

FracParts == 0 .. (Den - 1)

Magnitudes == {ip * Den + fp : ip \in IntParts, fp \in FracParts}

Values == Magnitudes \cup {-m : m \in Magnitudes}

---------------------------------------------------------------------------
(* Initial values *)

NoOutput == <<>>

InitFmt ==
    /\ fmt_value = 0
    /\ fmt_symbol = Dollar
    /\ fmt_out = NoOutput

InitFontIdle ==
    /\ _FONT_REGISTERED = FALSE
    /\ _KO_FONT_NAME = "Helvetica"
    /\ _KO_FONT_NAME_BOLD = "Helvetica-Bold"
    /\ registered = {}
    /\ files = {}
    /\ corrupt = {}
    /\ download = [raises |-> TRUE, writes |-> {}, bad |-> {}]
    /\ register_returned = FALSE

InitPdfIdle ==
    /\ pending = <<>>
    /\ calls = <<>>

\* no thread is in _register_korean_font
InitThreadsIdle ==
    /\ thread_pc = <<>>
    /\ body_runs = {}

\* the form before the page is opened: every widget at its default
DefaultRow == [name |-> "", qty |-> 1, unit_price |-> 0]

InitForm ==
    /\ lang_code = "ko"
    /\ currency_select = "KRW"
    /\ item_count = 1
    /\ item_widgets = <<DefaultRow>>
    /\ from_company = ""
    /\ to_company = ""
    /\ tax_rate_input = 10
    /\ shown = [items |-> <<>>, subtotal |-> 0, tax |-> 0, total |-> 0]
    /\ message = ""
    /\ clicks = [add |-> 0, remove |-> 0]

---------------------------------------------------------------------------
(* Specification SpecFmt: calls of fmt_money *)

\* the arguments are drawn by InitSpecFmt; the call stores what it returns
CallFmtMoney ==
    /\ fmt_out = NoOutput
    /\ fmt_out' = fmt_money(fmt_value, fmt_symbol)
    /\ UNCHANGED <<fmt_value, fmt_symbol, fontVars, download, threadVars, pdfVars, formVars>>

InitSpecFmt ==
    /\ InitThreadsIdle
    /\ fmt_value \in Values
    /\ fmt_symbol \in Symbols
    /\ fmt_out = NoOutput
    /\ InitFontIdle
    /\ InitPdfIdle
    /\ InitForm
NextFmt == CallFmtMoney
SpecFmt == InitSpecFmt /\ [][NextFmt]_vars

---------------------------------------------------------------------------
(* get_sample_data *)

SampleItem(name, qty, unit_price, amount) ==
    [name |-> name, qty |-> qty, unit_price |-> unit_price * Den,
     amount |-> amount * Den]

\* sum(it["amount"] for it in items)
RECURSIVE SumAmounts(_)
SumAmounts(items) ==
    IF items = <<>> THEN 0
    ELSE SumAmounts(SubSeq(items, 1, Len(items) - 1)) + items[Len(items)].amount

\* x * rate / 100 for an amount x and a whole percentage: the hundreds of x
\* and the rest are multiplied apart, which gives the same number and keeps
\* every product within the machine integers of the checker
PercentOf(x, rate) == (x \div 100) * rate + ((x % 100) * rate) \div 100

\* the dates and the invoice number depend on the day only
Today == "today"
TodayPlus30 == "today+30"

get_sample_data(lang, currency) ==
    IF lang = "ko"
    THEN
      LET items ==
            << SampleItem("UI/UX Design - Mobile App", 1, 5000000, 5000000),
               SampleItem("Frontend Development (React Native)", 1, 12000000, 12000000),
               SampleItem("Backend API Development", 1, 8000000, 8000000),
               SampleItem("QA Testing & Bug Fix", 40, 150000, 6000000),
               SampleItem("Project Management", 3, 1000000, 3000000) >>
          subtotal == SumAmounts(items)
          tax_rate == 10
          tax      == PercentOf(subtotal, tax_rate)
      IN  [invoice_no |-> "INV-today-A01",
           issue_date |-> Today,
           due_date   |-> TodayPlus30,
           from |-> [company |-> "BluePrint Studios",
                     business_no |-> "124-86-12345",
                     address |-> "Seoul, Gangnam-gu, Teheran-ro 152, 8F",
                     email |-> "billing@blueprint.kr",
                     phone |-> "02-555-1234"],
           to   |-> [company |-> "GreenField Corp.",
                     business_no |-> "210-81-67890",
                     address |-> "Seoul, Seocho-gu, Seocho-daero 321, 12F",
                     email |-> "accounts@greenfield.co.kr",
                     phone |-> "02-333-5678"],
           items |-> items,
           subtotal |-> subtotal,
           tax_rate |-> tax_rate,
           tax |-> tax,
           total |-> subtotal + tax,
           payment |-> [bank |-> "Shinhan Bank",
                        account_no |-> "110-432-789012",
                        holder |-> "BluePrint Studios"],
           notes |-> "30 days payment. 50% deposit paid upon contract signing (INV-20260110-A01).\nBalance due upon project delivery and acceptance."]
    ELSE
      LET items ==
            << SampleItem("Brand Identity & Logo Design", 1, 4500, 4500),
               SampleItem("Website Design (10 pages)", 10, 800, 8000),
               SampleItem("Frontend Development (Next.js)", 1, 12000, 12000),
               SampleItem("CMS Integration & Training", 1, 2500, 2500),
               SampleItem("SEO Optimization", 1, 1500, 1500) >>
          subtotal == SumAmounts(items)
          tax_rate == 8
          tax      == PercentOf(subtotal, tax_rate)
      IN  [invoice_no |-> "INV-today-A01",
           issue_date |-> Today,
           due_date   |-> TodayPlus30,
           from |-> [company |-> "Oakwood Digital Agency",
                     business_no |-> "EIN 83-4027591",
                     address |-> "350 Fifth Avenue, Suite 4210, New York, NY 10118",
                     email |-> "invoices@oakwooddigital.com",
                     phone |-> "+1 (212) 555-0192"],
           to   |-> [company |-> "Meridian Health Partners",
                     business_no |-> "EIN 47-2198635",
                     address |-> "200 Berkeley Street, 18th Floor, Boston, MA 02116",
                     email |-> "ap@meridianhealth.com",
                     phone |-> "+1 (617) 555-0347"],
           items |-> items,
           subtotal |-> subtotal,
           tax_rate |-> tax_rate,
           tax |-> tax,
           total |-> subtotal + tax,
           payment |-> [bank |-> "Chase Bank",
                        account_no |-> "Routing: 021000021 / Acct: 483927105",
                        holder |-> "Oakwood Digital Agency LLC"],
           notes |-> "Payment due within 30 days of invoice date.\nPlease reference invoice number on all payments.\nLate payments subject to 1.5% monthly interest."]

---------------------------------------------------------------------------
(* Calls of _register_korean_font and of generate_pdf *)

Call(data, lang, currency) == [data |-> data, lang |-> lang, currency |-> currency]

\* a finished call: its arguments and what it returned or raised
Done(c, r) ==
    [data |-> c.data, lang |-> c.lang, currency |-> c.currency,
     raised |-> r.raised, pdf |-> r.pdf]

\* a call of _register_korean_font() on its own
CallRegisterKoreanFont ==
    /\ SetGlobals(_register_korean_font(Globals, download))
    /\ register_returned' = TRUE
    /\ UNCHANGED <<fmtVars, download, threadVars, pdfVars, formVars>>

\* a call of generate_pdf with the pending arguments: the font registration
\* it starts with, then the document or the exception
CallGeneratePdf ==
    /\ pending # <<>>
    /\ LET g == _register_korean_font(Globals, download)
       IN  /\ SetGlobals(g)
           /\ calls' = <<Done(pending[1],
                              generate_pdf(pending[1].data, pending[1].lang,
                                           pending[1].currency, g))>>
    /\ register_returned' = TRUE
    /\ pending' = <<>>
    /\ UNCHANGED <<fmtVars, download, threadVars, formVars>>

---------------------------------------------------------------------------
(* Specification SpecFont: the registration in every font environment *)

InitSpecFont ==
    /\ InitThreadsIdle
    /\ InitFmt
    /\ InitForm
    /\ _FONT_REGISTERED = FALSE
    /\ _KO_FONT_NAME = "Helvetica"
    /\ _KO_FONT_NAME_BOLD = "Helvetica-Bold"
    /\ registered = {}
    /\ files \in SUBSET FontPaths
    /\ corrupt \in SUBSET files
    /\ download \in Downloads
    /\ register_returned = FALSE
    /\ pending = <<Call(get_sample_data("ko", "KRW"), "ko", "KRW")>>
    /\ calls = <<>>

NextFont == CallRegisterKoreanFont \/ CallGeneratePdf
SpecFont == InitSpecFont /\ [][NextFont]_vars

---------------------------------------------------------------------------
(* Specification SpecThreads: _register_korean_font called by the script
   threads of one process.  Streamlit runs each session's script in a
   thread of its own; the module globals are shared by all of them, and no
   lock is taken anywhere in the module. *)

\* the threads that call generate_pdf
MaxThreads == 2
Threads == 1 .. MaxThreads

\* the font files a thread may find: the cache and the Linux pair
ThreadFontPaths == {CacheRegular, CacheBold, candidates[5][1], candidates[5][2]}

\* a thread reads _FONT_REGISTERED (line 54): it returns when the flag is
\* set and goes on into the body when it is not
CheckRegistered(t) ==
    /\ thread_pc[t] = "line 54"
    /\ thread_pc' = [thread_pc EXCEPT ![t] =
                        IF _FONT_REGISTERED THEN "returned" ELSE "line 57"]
    /\ register_returned' = (register_returned \/ _FONT_REGISTERED)
    /\ UNCHANGED <<_FONT_REGISTERED, _KO_FONT_NAME, _KO_FONT_NAME_BOLD,
                   registered, files, corrupt, body_runs,
                   fmtVars, download, pdfVars, formVars>>

\* the body from line 57 up to the assignment of the flag: the candidate
\* search, the download, registerFont and the writes to the font names
RunRegistrationBody(t) ==
    /\ thread_pc[t] = "line 57"
    /\ LET g == _register_korean_font(
                   [Globals EXCEPT !.FONT_REGISTERED = FALSE], download)
       IN  /\ _KO_FONT_NAME' = g.KO_FONT_NAME
           /\ _KO_FONT_NAME_BOLD' = g.KO_FONT_NAME_BOLD
           /\ registered' = g.registered
           /\ files' = g.files
           /\ corrupt' = g.corrupt
    /\ body_runs' = body_runs \cup {t}
    /\ thread_pc' = [thread_pc EXCEPT ![t] = "flag"]
    /\ UNCHANGED <<_FONT_REGISTERED, register_returned,
                   fmtVars, download, pdfVars, formVars>>

\* _FONT_REGISTERED = True (line 98, 106 or 110) and the return
SetRegistered(t) ==
    /\ thread_pc[t] = "flag"
    /\ _FONT_REGISTERED' = TRUE
    /\ register_returned' = TRUE
    /\ thread_pc' = [thread_pc EXCEPT ![t] = "returned"]
    /\ UNCHANGED <<_KO_FONT_NAME, _KO_FONT_NAME_BOLD, registered, files, corrupt,
                   body_runs, fmtVars, download, pdfVars, formVars>>

InitSpecThreads ==
    /\ InitFmt
    /\ InitForm
    /\ InitPdfIdle
    /\ _FONT_REGISTERED = FALSE
    /\ _KO_FONT_NAME = "Helvetica"
    /\ _KO_FONT_NAME_BOLD = "Helvetica-Bold"
    /\ registered = {}
    /\ files \in SUBSET ThreadFontPaths
    /\ corrupt \in SUBSET files
    /\ download \in Downloads
    /\ register_returned = FALSE
    /\ thread_pc = [t \in Threads |-> "line 54"]
    /\ body_runs = {}

NextThreads ==
    \E t \in Threads :
        \/ CheckRegistered(t)
        \/ RunRegistrationBody(t)
        \/ SetRegistered(t)

SpecThreads == InitSpecThreads /\ [][NextThreads]_vars

---------------------------------------------------------------------------
(* Specification SpecPdf: generate_pdf on records of every shape *)

\* the most item rows of a record handed to generate_pdf directly
MaxItems == 2

PartyFields == {"company", "business_no", "address", "email", "phone"}

\* a party with the fields of present filled in and the others left as missing
PartyWith(present, missing) ==
    [f \in PartyFields |-> IF f \in present THEN "v-" \o f ELSE missing]

FromInputs ==
    {PartyWith(present, "") :
        present \in {{}, {"company"}, {"company", "business_no"},
                     PartyFields \ {"company"}, PartyFields}}
    \cup {PartyWith({"company", "phone"}, None)}

ToInputs == {PartyWith({}, None), PartyWith(PartyFields, "")}

PaymentInputs ==
    [bank : {"", "Bank"}, account_no : {"", "123-456"}, holder : {"", "Holder"}]
    \cup {[bank |-> None, account_no |-> None, holder |-> None]}

NotesInputs == {None, "", " ", "Net 30"}

ItemInputs ==
    << [name |-> "Design", qty |-> 1, unit_price |-> 1000 * Den, amount |-> 1000 * Den],
       [name |-> "Dev", qty |-> 2, unit_price |-> 500 * Den, amount |-> 999 * Den],
       [name |-> "Hosting", qty |-> 3, unit_price |-> 25 * Den + Den \div 2,
        amount |-> 76 * Den + Den \div 2] >>

\* the first n items
ItemsInputs == {SubSeq(ItemInputs, 1, n) : n \in 0 .. MaxItems}

\* totals that agree with the items (at 10 per cent) and totals that do not
TotalsInputs(items) ==
    { [subtotal |-> SumAmounts(items), tax_rate |-> 10,
       tax |-> PercentOf(SumAmounts(items), 10),
       total |-> SumAmounts(items) + PercentOf(SumAmounts(items), 10)],
      [subtotal |-> 7 * Den, tax_rate |-> 0, tax |-> 3 * Den, total |-> Den \div 4] }

RecordInputs ==
    {[invoice_no |-> "INV-1", issue_date |-> Today, due_date |-> TodayPlus30,
      from |-> f, to |-> t, items |-> its,
      subtotal |-> tot.subtotal, tax_rate |-> tot.tax_rate,
      tax |-> tot.tax, total |-> tot.total,
      payment |-> pay, notes |-> n] :
        f \in FromInputs, t \in ToInputs, its \in ItemsInputs,
        tot \in UNION {TotalsInputs(i) : i \in ItemsInputs},
        pay \in PaymentInputs, n \in NotesInputs}

LangInputs == {"ko", "en", "fr"}
CurrencyInputs == {"KRW", "USD", "EUR", "JPY", "GBP"}

\* three font environments: nothing to be had, a system font without a
\* bold face, and the cached pair
FontEnvironments ==
    { [files |-> {}, corrupt |-> {}],
      [files |-> {candidates[3][1]}, corrupt |-> {}],
      [files |-> {CacheRegular, CacheBold}, corrupt |-> {}] }

InitSpecPdf ==
    /\ InitThreadsIdle
    /\ InitFmt
    /\ InitForm
    /\ _FONT_REGISTERED = FALSE
    /\ _KO_FONT_NAME = "Helvetica"
    /\ _KO_FONT_NAME_BOLD = "Helvetica-Bold"
    /\ registered = {}
    /\ \E e \in FontEnvironments : files = e.files /\ corrupt = e.corrupt
    /\ download = [raises |-> TRUE, writes |-> {}, bad |-> {}]
    /\ register_returned = FALSE
    /\ \E d \in RecordInputs, l \in LangInputs, c \in CurrencyInputs :
          pending = <<Call(d, l, c)>>
    /\ calls = <<>>

NextPdf == CallGeneratePdf
SpecPdf == InitSpecPdf /\ [][NextPdf]_vars

---------------------------------------------------------------------------
(* The Streamlit script: the sample tab and the Create-Invoice form *)

\* the most item rows the form is grown to
MaxRows == 3
\* quantities 1..MaxQty are entered
MaxQty == 2
\* unit prices of 0..MaxPriceSteps times 25 are entered
MaxPriceSteps == 1
\* the add clicks of a session
MaxAddClicks == 2

\* " " stands for every text of whitespace only; no other text of the
\* model starts or ends with whitespace
strip(text) == IF text = " " THEN "" ELSE text

NameInputs == {"", " ", "Design"}
QtyInputs == 1 .. MaxQty
PriceInputs == {k * 25 * Den : k \in 0 .. MaxPriceSteps}
CompanyInputs == {"", "Acme"}
TaxRateInputs == {0, 10}

\* the currencies selected in the form: one without and one with decimals
FormCurrencyInputs == {"KRW", "USD"}

\* The other text inputs of the form (business numbers, addresses, e-mail,
\* phone, payment fields, notes) are passed to the record as they are; they
\* are held at one value each: some filled in, some left empty.
Details ==
    [from_bizno |-> "111", from_address |-> "1 Main St", from_email |-> "",
     from_phone |-> "555", to_bizno |-> "", to_address |-> "2 Side St",
     to_email |-> "d@e.f", to_phone |-> "", bank_name |-> "Bank",
     account_no |-> "", account_holder |-> "Acme", notes |-> "Net 30"]

RECURSIVE ItemLoop_adds_price(_, _, _)
ItemLoop_adds_price(widgets, i, acc) ==
    IF i > Len(widgets) THEN acc
    ELSE ItemLoop_adds_price(widgets, i + 1,
            [items |-> Append(acc.items,
                              [name |-> widgets[i].name, qty |-> widgets[i].qty,
                               unit_price |-> widgets[i].unit_price,
                               amount |-> widgets[i].qty * widgets[i].unit_price]),
             subtotal |-> acc.subtotal + widgets[i].unit_price])

\* the loop over the item rows, from row i on: each row is appended to
\* items with its line amount, which is added to subtotal
RECURSIVE ItemLoop(_, _, _)
ItemLoop(widgets, i, acc) ==
    IF i > Len(widgets) THEN acc
    ELSE LET name        == widgets[i].name
             qty         == widgets[i].qty
             unit_price  == widgets[i].unit_price
             line_amount == qty * unit_price
         IN  ItemLoop(widgets, i + 1,
                      [items |-> Append(acc.items,
                                        [name |-> name, qty |-> qty,
                                         unit_price |-> unit_price,
                                         amount |-> line_amount]),
                       subtotal |-> acc.subtotal + line_amount])

\* what a run of the script computes from the item rows and the tax rate
ComputeTotals(widgets, rate) ==
    LET loop     == ItemLoop(widgets, 1, [items |-> <<>>, subtotal |-> 0])
        subtotal == loop.subtotal
        tax      == PercentOf(subtotal, rate)
        total    == subtotal + tax
    IN  [items |-> loop.items, subtotal |-> subtotal, tax |-> tax, total |-> total]

\* the invoice number field takes a new default in every run
InvoiceNo == "INV-today-XXXX"

\* the Generate handler's validation
HasItems(items) == \E k \in DOMAIN items : strip(items[k].name) # ""
FormValid_sender_only(fc, tc, items) == Truthy(fc) /\ HasItems(items)
FormValid(fc, tc, items) == Truthy(fc) /\ Truthy(tc) /\ HasItems(items)

\* the record the Generate handler builds
InvoiceData(fc, tc, rate, t) ==
    LET det == Details IN
    [invoice_no |-> InvoiceNo,
     issue_date |-> Today,
     due_date   |-> TodayPlus30,
     from |-> [company |-> fc, business_no |-> det.from_bizno,
               address |-> det.from_address, email |-> det.from_email,
               phone |-> det.from_phone],
     to   |-> [company |-> tc, business_no |-> det.to_bizno,
               address |-> det.to_address, email |-> det.to_email,
               phone |-> det.to_phone],
     items |-> SelectSeq(t.items, LAMBDA it : strip(it.name) # ""),
     subtotal |-> t.subtotal,
     tax_rate |-> rate,
     tax |-> t.tax,
     total |-> t.total,
     payment |-> [bank |-> det.bank_name, account_no |-> det.account_no,
                  holder |-> det.account_holder],
     notes |-> det.notes]

\* The sample tab: get_sample_data and generate_pdf on its record, for
\* each language and each pair of Korean font names the globals can hold.
\* The calls depend on nothing else, so they are tabulated.
SampleCurrency(lc) == IF lc = "ko" THEN "KRW" ELSE "USD"

SampleTab ==
    [lc \in {"ko", "en"} |->
      [pair \in {<<"Helvetica", "Helvetica-Bold">>, <<"KoreanFont", "KoreanFont">>,
                 <<"KoreanFont", "KoreanFontBold">>} |->
         LET sample_currency == SampleCurrency(lc)
             sample_data     == get_sample_data(lc, sample_currency)
         IN  Done(Call(sample_data, lc, sample_currency),
                  generate_pdf(sample_data, lc, sample_currency,
                               [KO_FONT_NAME |-> pair[1],
                                KO_FONT_NAME_BOLD |-> pair[2]]))]]

\* One run of the script to its end, on the widget values given: the
\* sample tab generates the sample PDF, the form computes and shows the
\* totals, and the Generate handler runs if its button was clicked.
ScriptRun(lc, cur, widgets, fc, tc, rate, generate_clicked) ==
    LET g      == _register_korean_font(Globals, download)
        sample == SampleTab[lc][<<g.KO_FONT_NAME, g.KO_FONT_NAME_BOLD>>]
        t      == ComputeTotals(widgets, rate)
        invoice_data == InvoiceData(fc, tc, rate, t)
    IN  /\ SetGlobals(g)
        /\ register_returned' = TRUE
        /\ shown' = t
        /\ IF ~generate_clicked
           THEN calls' = <<sample>> /\ message' = ""
           ELSE IF ~FormValid(fc, tc, t.items)
           THEN calls' = <<sample>> /\ message' = "fill_warning"
           ELSE /\ calls' = <<sample,
                              Done(Call(invoice_data, lc, cur),
                                   generate_pdf(invoice_data, lc, cur, g))>>
                /\ message' = "success"

PageOpen == calls # <<>>

\* the first run of a session
OpenPage ==
    /\ ~PageOpen
    /\ ScriptRun(lang_code, currency_select, item_widgets, from_company,
                 to_company, tax_rate_input, FALSE)
    /\ UNCHANGED <<fmtVars, download, threadVars, pending, clicks, lang_code, currency_select,
                   item_count, item_widgets, from_company, to_company,
                   tax_rate_input>>

SelectLanguage ==
    /\ PageOpen
    /\ \E lc \in {"ko", "en"} :
          /\ lang_code' = lc
          /\ ScriptRun(lc, currency_select, item_widgets, from_company,
                       to_company, tax_rate_input, FALSE)
    /\ UNCHANGED <<fmtVars, download, threadVars, pending, clicks, currency_select, item_count,
                   item_widgets, from_company, to_company, tax_rate_input>>

SelectCurrency ==
    /\ PageOpen
    /\ \E cur \in FormCurrencyInputs :
          /\ currency_select' = cur
          /\ ScriptRun(lang_code, cur, item_widgets, from_company,
                       to_company, tax_rate_input, FALSE)
    /\ UNCHANGED <<fmtVars, download, threadVars, pending, clicks, lang_code, item_count,
                   item_widgets, from_company, to_company, tax_rate_input>>

\* an edit of one input of item row i
EditItem(i, field, value) ==
    /\ PageOpen
    /\ item_widgets' = [item_widgets EXCEPT ![i + 1][field] = value]
    /\ ScriptRun(lang_code, currency_select, item_widgets', from_company,
                 to_company, tax_rate_input, FALSE)
    /\ UNCHANGED <<fmtVars, download, threadVars, pending, clicks, lang_code, currency_select,
                   item_count, from_company, to_company, tax_rate_input>>

EditItemName  == \E i \in 0 .. (item_count - 1), v \in NameInputs : EditItem(i, "name", v)
EditItemQty   == \E i \in 0 .. (item_count - 1), v \in QtyInputs : EditItem(i, "qty", v)
EditItemPrice == \E i \in 0 .. (item_count - 1), v \in PriceInputs : EditItem(i, "unit_price", v)

EditFromCompany ==
    /\ PageOpen
    /\ \E v \in CompanyInputs :
          /\ from_company' = v
          /\ ScriptRun(lang_code, currency_select, item_widgets, v,
                       to_company, tax_rate_input, FALSE)
    /\ UNCHANGED <<fmtVars, download, threadVars, pending, clicks, lang_code, currency_select,
                   item_count, item_widgets, to_company, tax_rate_input>>

EditToCompany ==
    /\ PageOpen
    /\ \E v \in CompanyInputs :
          /\ to_company' = v
          /\ ScriptRun(lang_code, currency_select, item_widgets, from_company,
                       v, tax_rate_input, FALSE)
    /\ UNCHANGED <<fmtVars, download, threadVars, pending, clicks, lang_code, currency_select,
                   item_count, item_widgets, from_company, tax_rate_input>>

EditTaxRate ==
    /\ PageOpen
    /\ \E v \in TaxRateInputs :
          /\ tax_rate_input' = v
          /\ ScriptRun(lang_code, currency_select, item_widgets, from_company,
                       to_company, v, FALSE)
    /\ UNCHANGED <<fmtVars, download, threadVars, pending, clicks, lang_code, currency_select,
                   item_count, item_widgets, from_company, to_company>>

\* A click that ends in st.rerun() stops the run at the button: the inputs
\* below it were not reached in that run.  Whether Streamlit keeps their
\* values for the run that follows is not decided by this program, so both
\* outcomes are modelled: reset says that they fall back to their defaults
\* (the item rows below the button and the tax rate).
WidgetsAfterRemove(i, reset) ==
    [k \in 1 .. (item_count - 1) |->
        IF k = i + 1 THEN DefaultRow
        ELSE IF k > i + 1 /\ reset THEN DefaultRow
        ELSE item_widgets[k]]

\* the remove button of row i (i > 0): item_count is decremented, the keys
\* of row i are popped, and the script is rerun
RemoveItem_any_row ==
    /\ PageOpen
    /\ clicks' = [clicks EXCEPT !.remove = @ + 1]
    /\ \E i \in 0 .. (item_count - 1), reset \in BOOLEAN :
          LET rate == IF reset THEN 10 ELSE tax_rate_input
          IN  /\ item_count' = item_count - 1
              /\ item_widgets' = WidgetsAfterRemove(i, reset)
              /\ tax_rate_input' = rate
              /\ ScriptRun(lang_code, currency_select, item_widgets', from_company,
                           to_company, rate, FALSE)
    /\ UNCHANGED <<fmtVars, download, threadVars, pending, lang_code, currency_select,
                   from_company, to_company>>

RemoveItem ==
    /\ PageOpen
    /\ clicks' = [clicks EXCEPT !.remove = @ + 1]
    /\ \E i \in 1 .. (item_count - 1), reset \in BOOLEAN :
          LET rate == IF reset THEN 10 ELSE tax_rate_input
          IN  /\ item_count' = item_count - 1
              /\ item_widgets' = WidgetsAfterRemove(i, reset)
              /\ tax_rate_input' = rate
              /\ ScriptRun(lang_code, currency_select, item_widgets', from_company,
                           to_company, rate, FALSE)
    /\ UNCHANGED <<fmtVars, download, threadVars, pending, lang_code, currency_select,
                   from_company, to_company>>

\* the add button: item_count is incremented and the script is rerun
AddItem ==
    /\ PageOpen
    /\ item_count < MaxRows
    /\ clicks.add < MaxAddClicks
    /\ clicks' = [clicks EXCEPT !.add = @ + 1]
    /\ \E reset \in BOOLEAN :
          LET rate == IF reset THEN 10 ELSE tax_rate_input
          IN  /\ item_count' = item_count + 1
              /\ item_widgets' = Append(item_widgets, DefaultRow)
              /\ tax_rate_input' = rate
              /\ ScriptRun(lang_code, currency_select, item_widgets', from_company,
                           to_company, rate, FALSE)
    /\ UNCHANGED <<fmtVars, download, threadVars, pending, lang_code, currency_select,
                   from_company, to_company>>

\* a click on Generate
Generate ==
    /\ PageOpen
    /\ ScriptRun(lang_code, currency_select, item_widgets, from_company,
                 to_company, tax_rate_input, TRUE)
    /\ UNCHANGED <<fmtVars, download, threadVars, pending, clicks, lang_code, currency_select,
                   item_count, item_widgets, from_company, to_company,
                   tax_rate_input>>

InitSpecForm ==
    /\ InitThreadsIdle
    /\ InitFmt
    /\ InitFontIdle
    /\ InitPdfIdle
    /\ InitForm

NextForm ==
    \/ OpenPage
    \/ SelectLanguage
    \/ SelectCurrency
    \/ EditItemName
    \/ EditItemQty
    \/ EditItemPrice
    \/ EditFromCompany
    \/ EditToCompany
    \/ EditTaxRate
    \/ AddItem
    \/ RemoveItem
    \/ Generate

SpecForm == InitSpecForm /\ [][NextForm]_vars

---------------------------------------------------------------------------
(* Specification SpecTotals: the totals computation on its own *)

\* the longest sequence of rows the computation is applied to
MaxTotalRows == 2

\* a row's name plays no part in the sums: a blank one and another
RowInputs == [name : {"", "Design"}, qty : QtyInputs, unit_price : PriceInputs]

\* every sequence of at most n rows
RECURSIVE RowSeqs(_)
RowSeqs(n) ==
    IF n = 0 THEN {<<>>}
    ELSE RowSeqs(n - 1)
         \cup {Append(rs, r) : rs \in {q \in RowSeqs(n - 1) : Len(q) = n - 1},
                               r \in RowInputs}

InitSpecTotals ==
    /\ InitThreadsIdle
    /\ InitFmt
    /\ InitFontIdle
    /\ InitPdfIdle
    /\ lang_code = "ko"
    /\ currency_select = "KRW"
    /\ item_widgets \in RowSeqs(MaxTotalRows)
    /\ item_count = Len(item_widgets)
    /\ from_company = ""
    /\ to_company = ""
    /\ tax_rate_input \in 0 .. 100
    /\ shown = [items |-> <<>>, subtotal |-> 0, tax |-> 0, total |-> 0]
    /\ message = ""
    /\ clicks = [add |-> 0, remove |-> 0]

\* the computation of the form, lines 593-642, on the rows and the rate drawn
ComputeFormTotals ==
    /\ message = ""
    /\ shown' = ComputeTotals(item_widgets, tax_rate_input)
    /\ message' = "form totals"
    /\ UNCHANGED <<fmtVars, fontVars, download, threadVars, pdfVars, clicks, lang_code, currency_select,
                   item_count, item_widgets, from_company, to_company, tax_rate_input>>

\* the computation of get_sample_data, whose rate is the sample's own
ComputeSampleTotals ==
    /\ message = ""
    /\ \E lc \in {"ko", "en"} :
          LET d == get_sample_data(lc, SampleCurrency(lc))
          IN  /\ shown' = [items |-> d.items, subtotal |-> d.subtotal,
                           tax |-> d.tax, total |-> d.total]
              /\ tax_rate_input' = d.tax_rate
              /\ lang_code' = lc
    /\ message' = "sample totals"
    /\ UNCHANGED <<fmtVars, fontVars, download, threadVars, pdfVars, clicks, currency_select,
                   item_count, item_widgets, from_company, to_company>>

NextTotals == ComputeFormTotals \/ ComputeSampleTotals
SpecTotals == InitSpecTotals /\ [][NextTotals]_vars

---------------------------------------------------------------------------
(* Reading a formatted amount back *)

IsDigit(c) == c \in {Digit(d) : d \in 0 .. 9}
DigitVal(c) == CHOOSE d \in 0 .. 9 : Digit(d) = c

\* the number written by a text of digits and separators
RECURSIVE NumVal(_)
NumVal(text) ==
    IF text = <<>> THEN 0
    ELSE LET last == text[Len(text)]
             init == SubSeq(text, 1, Len(text) - 1)
         IN  IF last = "," THEN NumVal(init)
             ELSE 10 * NumVal(init) + DigitVal(last)

\* digits in groups of three from the right, a separator between the groups
\* and nowhere else, no leading zero
WellGrouped(text) ==
    /\ Len(text) >= 1
    /\ \A i \in 1 .. Len(text) :
          IF (Len(text) - i + 1) % 4 = 0 THEN text[i] = "," ELSE IsDigit(text[i])
    /\ (text[1] = "0" => Len(text) = 1)

\* the text after the symbol and after the sign of a negative value
Unsigned(out, value) ==
    IF value < 0 /\ Len(out) >= 2 /\ out[2] = "-"
    THEN SubSeq(out, 3, Len(out)) ELSE SubSeq(out, 2, Len(out))

\* n (a count of 10^-prec) is a nearest such count to mag / Den
Nearest(n, mag, prec) ==
    LET k == n - (mag \div Den) * 10^prec
    IN  /\ k \in 0 .. 10^prec
        /\ 2 * Abs(k * Den - (mag % Den) * 10^prec) <= Den

ZeroDecimalText(out, value) ==
    LET text == Unsigned(out, value)
    IN  /\ WellGrouped(text)
        /\ Nearest(NumVal(text), Abs(value), 0)

TwoDecimalText(out, value) ==
    LET text == Unsigned(out, value)
        n    == Len(text)
    IN  /\ n >= 4
        /\ text[n - 2] = "."
        /\ IsDigit(text[n - 1]) /\ IsDigit(text[n])
        /\ WellGrouped(SubSeq(text, 1, n - 3))
        /\ Nearest(NumVal(SubSeq(text, 1, n - 3)) * 100
                     + 10 * DigitVal(text[n - 1]) + DigitVal(text[n]),
                   Abs(value), 2)

---------------------------------------------------------------------------
(* Reading a document back *)

\* the calls of the latest step that returned a document
ReturnedCalls == {i \in DOMAIN calls : calls[i].raised = None}

InSection(pdf, section) == SelectSeq(pdf, LAMBDA e : e.section = section)

\* every line of text of an element: its own and those of its cells
ElementLines(e) ==
    {e.lines[i] : i \in DOMAIN e.lines}
    \cup UNION {UNION {{e.rows[r][c].lines[i] : i \in DOMAIN e.rows[r][c].lines} :
                         c \in DOMAIN e.rows[r]} : r \in DOMAIN e.rows}

\* every token that appears anywhere in a document
Tokens(pdf) ==
    UNION {UNION {{line[j] : j \in DOMAIN line} : line \in ElementLines(pdf[i])} :
             i \in DOMAIN pdf}

NonEmpty(v) == v \notin {None, ""}

\* the non-empty payment fields of a record, in the order bank, account
\* number, holder, each with the key of its label
PaymentFieldsPresent(payment) ==
    SelectSeq(<< <<"bank_name", payment.bank>>,
                 <<"account_no", payment.account_no>>,
                 <<"account_holder", payment.holder>> >>,
              LAMBDA kv : NonEmpty(kv[2]))

PaymentLabels(lang) ==
    {LABELS[lang][k] : k \in {"payment_title", "bank_name", "account_no", "account_holder"}}

\* the place of a section in the document order
SectionRank(section) ==
    CASE section = "header"  -> 1
      [] section = "meta"    -> 2
      [] section = "party"   -> 3
      [] section = "items"   -> 4
      [] section = "totals"  -> 5
      [] section = "payment" -> 6
      [] section = "notes"   -> 7
      [] section = "footer"  -> 8

\* the elements of a section that carry content (not the spacers)
Content(pdf, section) ==
    SelectSeq(pdf, LAMBDA e : e.section = section /\ e.kind # "Spacer")

\* a document with every label of its language replaced by the label's key
\* and every font name dropped: what is left is the layout and the data
NeutralToken(t, lang) ==
    IF \E k \in PdfLabelKeys : LABELS[lang][k] = t
    THEN CHOOSE k \in PdfLabelKeys : LABELS[lang][k] = t
    ELSE t

NeutralLines(lines, lang) ==
    [i \in DOMAIN lines |-> [j \in DOMAIN lines[i] |-> NeutralToken(lines[i][j], lang)]]

NeutralElement(e, lang) ==
    [section |-> e.section, kind |-> e.kind, style |-> e.style, font |-> "",
     lines |-> NeutralLines(e.lines, lang),
     rows |-> [r \in DOMAIN e.rows |->
                [c \in DOMAIN e.rows[r] |->
                   [style |-> e.rows[r][c].style, font |-> "",
                    lines |-> NeutralLines(e.rows[r][c].lines, lang)]]]]

Neutral(pdf, lang) == [i \in DOMAIN pdf |-> NeutralElement(pdf[i], lang)]

OtherLang(lang) == IF lang = "ko" THEN "en" ELSE "ko"

---------------------------------------------------------------------------
(* Claims *)

\* C8: fmt_money(value, symbol) is the symbol followed, for the Won and the
\* Yen symbol, by value rounded to the nearest integer with thousands
\* separators and no decimal point, and for every other symbol by value
\* with thousands separators and exactly two decimal digits; 1234567 with
\* Won gives Won 1,234,567 and 1234.5 with $ gives $1,234.50.
C8_FmtMoneyDigits ==
    fmt_out # NoOutput =>
        /\ fmt_out[1] = fmt_symbol
        /\ (fmt_value < 0 => fmt_out[2] = "-")
        /\ IF fmt_symbol \in {Won, Yen}
           THEN ZeroDecimalText(fmt_out, fmt_value)
           ELSE TwoDecimalText(fmt_out, fmt_value)
        /\ (fmt_value = 1234567 * Den /\ fmt_symbol = Won =>
              fmt_out = <<Won, "1", ",", "2", "3", "4", ",", "5", "6", "7">>)
        /\ (fmt_value = 1234 * Den + Den \div 2 /\ fmt_symbol = Dollar =>
              fmt_out = <<Dollar, "1", ",", "2", "3", "4", ".", "5", "0">>)

\* a Yen amount that needed rounding and a separator has been formatted
C8_Witness ==
    /\ fmt_out # NoOutput
    /\ fmt_symbol = Yen
    /\ fmt_value = -(999 * Den + Den \div 2)
    /\ fmt_out = <<Yen, "-", "1", ",", "0", "0", "0">>

\* C9: for every negative value and every symbol the output starts with
\* '-', followed by the symbol, followed by the grouped magnitude.
C9_MinusBeforeSymbol ==
    fmt_out # NoOutput /\ fmt_value < 0 =>
        /\ fmt_out[1] = "-"
        /\ fmt_out[2] = fmt_symbol
        /\ SubSeq(fmt_out, 3, Len(fmt_out)) = Tail(fmt_money(-fmt_value, fmt_symbol))


\* C3: generate_pdf emits the payment section (the title, then one line per
\* non-empty field in the order bank, account number, holder) if and only
\* if at least one of the three payment fields is non-empty; when all three
\* are empty no payment title and no payment line is in the document.
C3_PaymentSection ==
    \A i \in ReturnedCalls :
        LET c       == calls[i]
            L       == LABELS[c.lang]
            present == PaymentFieldsPresent(c.data.payment)
            section == InSection(c.pdf, "payment")
        IN  IF present # <<>>
            THEN /\ Len(section) = 3
                 /\ section[1].kind = "Paragraph"
                 /\ section[1].lines = <<Bold(<<L.payment_title>>)>>
                 /\ section[2].kind = "Paragraph"
                 /\ section[2].lines =
                      [k \in DOMAIN present |->
                         <<L[present[k][1]], ": ", present[k][2]>>]
                 /\ section[3].kind = "Spacer"
            ELSE /\ section = <<>>
                 /\ Tokens(c.pdf) \cap PaymentLabels(c.lang) = {}

\* a document whose payment section has the account number and the holder
\* but no bank line
C3_Witness ==
    \E i \in ReturnedCalls :
        /\ calls[i].data.payment.bank = ""
        /\ NonEmpty(calls[i].data.payment.account_no)
        /\ NonEmpty(calls[i].data.payment.holder)
        /\ Len(InSection(calls[i].pdf, "payment")[2].lines) = 2

\* C4: generate_pdf omits the notes section whenever notes is empty or
\* blank (absent, the empty string, or only whitespace) and emits it (title
\* followed by the notes text) whenever notes is non-blank.
C4_NotesOmittedWhenBlank ==
    \A i \in ReturnedCalls :
        LET c       == calls[i]
            section == InSection(c.pdf, "notes")
        IN  IF c.data.notes \in {None, "", " "}
            THEN section = <<>>
            ELSE /\ Len(section) >= 2
                 /\ section[1].lines = <<Bold(<<LABELS[c.lang].notes_title>>)>>
                 /\ section[2].lines = <<<<c.data.notes>>>>

\* C5: the sections are emitted in the order header title, metadata row,
\* party blocks, item table, totals block, payment block (if present),
\* notes block (if present), footer; the five unconditional sections and
\* the footer appear exactly once and the footer is last.
C5_SectionOrder ==
    \A i \in ReturnedCalls :
        LET pdf == calls[i].pdf
            L   == LABELS[calls[i].lang]
        IN  /\ \A j \in 1 .. (Len(pdf) - 1) :
                  SectionRank(pdf[j].section) <= SectionRank(pdf[j + 1].section)
            /\ \A section \in {"header", "meta", "party", "items", "totals", "footer"} :
                  Len(Content(pdf, section)) = 1
            /\ Len(Content(pdf, "payment")) \in {0, 2}
            /\ Len(Content(pdf, "notes")) \in {0, 2}
            /\ pdf[1].lines = <<<<L.pdf_header>>>>
            /\ Content(pdf, "meta")[1].kind = "Table"
            /\ Content(pdf, "party")[1].kind = "Table"
            /\ Len(Content(pdf, "items")[1].rows) = 1 + Len(calls[i].data.items)
            /\ Len(Content(pdf, "totals")[1].rows) = 3
            /\ pdf[Len(pdf)].kind = "Paragraph"
            /\ pdf[Len(pdf)].section = "footer"
            /\ pdf[Len(pdf)].lines = <<<<L.pdf_footer>>>>

\* a document that has both conditional sections, the payment block before
\* the notes block
C5_Witness ==
    \E i \in ReturnedCalls :
        LET pdf == calls[i].pdf
        IN  \E j, k \in DOMAIN pdf :
               /\ j < k
               /\ pdf[j].section = "payment"
               /\ pdf[k].section = "notes"
               /\ Len(calls[i].data.items) = MaxItems

\* C6: for one record and currency, generate_pdf with lang en and with lang
\* ko give the same sequence of sections, the same presence of the payment
\* and notes sections, the same number of item rows and the same line
\* counts; the two documents differ only in label text and font names.
C6_LanguageSwitch ==
    \A i \in ReturnedCalls :
        LET c     == calls[i]
            other == generate_pdf(c.data, OtherLang(c.lang), c.currency, Globals)
        IN  /\ other.raised = None
            /\ Neutral(other.pdf, OtherLang(c.lang)) = Neutral(c.pdf, c.lang)

\* a Korean document in a registered Korean font, with a business number
\* line in the sender block, a payment section and no notes section
C6_Witness ==
    \E i \in ReturnedCalls :
        /\ calls[i].lang = "ko"
        /\ calls[i].pdf[1].font = "KoreanFontBold"
        /\ NonEmpty(calls[i].data.from.business_no)
        /\ InSection(calls[i].pdf, "payment") # <<>>
        /\ InSection(calls[i].pdf, "notes") = <<>>

\* C7: a call of generate_pdf with a language outside {ko, en} or a
\* currency outside {KRW, USD, EUR, JPY} ends in an error raised to the
\* caller and returns no PDF bytes; no default is substituted.
C7_UnsupportedSelectorRaises ==
    \A i \in DOMAIN calls :
        (calls[i].lang \notin {"ko", "en"}
           \/ calls[i].currency \notin {"KRW", "USD", "EUR", "JPY"})
        => /\ calls[i].raised # None
           /\ calls[i].pdf = <<>>

\* a call with a supported language and an unsupported currency has raised
C7_Witness ==
    \E i \in DOMAIN calls :
        /\ calls[i].lang = "ko"
        /\ calls[i].currency = "GBP"
        /\ calls[i].raised = "KeyError"

\* the fonts a document names
FontsUsed(pdf) ==
    ({pdf[i].font : i \in DOMAIN pdf}
     \cup UNION {UNION {{pdf[i].rows[r][c].font : c \in DOMAIN pdf[i].rows[r]} :
                          r \in DOMAIN pdf[i].rows} : i \in DOMAIN pdf})
    \ {""}

\* C10: in every font environment _register_korean_font returns with
\* _FONT_REGISTERED true and the Korean font pair either (Helvetica,
\* Helvetica-Bold), when no Korean font could be registered, or (KoreanFont,
\* KoreanFontBold or KoreanFont) with every such name registered; and
\* generate_pdf then still produces a document.
C10_FontResolutionNeverBlocks ==
    /\ register_returned =>
          /\ _FONT_REGISTERED
          /\ \/ /\ <<_KO_FONT_NAME, _KO_FONT_NAME_BOLD>> = <<"Helvetica", "Helvetica-Bold">>
                /\ registered = {}
             \/ /\ _KO_FONT_NAME = "KoreanFont"
                /\ _KO_FONT_NAME_BOLD \in {"KoreanFontBold", "KoreanFont"}
                /\ {_KO_FONT_NAME, _KO_FONT_NAME_BOLD} \subseteq registered
    /\ \A i \in DOMAIN calls :
          /\ calls[i].raised = None
          /\ calls[i].pdf # <<>>
          /\ FontsUsed(calls[i].pdf) \subseteq registered \cup {"Helvetica", "Helvetica-Bold"}

\* font files exist but none loads and the download raises: the Korean
\* document is produced in Helvetica
C10_Witness ==
    /\ register_returned
    /\ files # {}
    /\ download.raises
    /\ registered = {}
    /\ calls # <<>>
    /\ calls[1].lang = "ko"
    /\ calls[1].pdf # <<>>
    /\ calls[1].pdf[1].font = "Helvetica-Bold"


\* the sum of the amounts of a sequence of items, first to last
RECURSIVE AmountSum(_)
AmountSum(items) ==
    IF items = <<>> THEN 0 ELSE items[1].amount + AmountSum(Tail(items))

\* tax * 100 = subtotal * rate, with the hundreds of subtotal taken out of
\* both sides
IsPercentOf(tax, subtotal, rate) ==
    100 * (tax - (subtotal \div 100) * rate) = (subtotal % 100) * rate

\* C1: every record handed to generate_pdf by the app (the sample record,
\* or the record of a successful Generate click after any adding, removing
\* and editing) has subtotal equal to the sum of amount over its items.
C1_SubtotalIsSumOfItems ==
    \A i \in DOMAIN calls :
        calls[i].data.subtotal = AmountSum(calls[i].data.items)

\* C2: for every sequence of item rows and every tax rate in 0..100 the
\* totals computation gives line amount = quantity * unit price for each
\* row, subtotal = the sum of the line amounts, tax = subtotal * rate / 100
\* and total = subtotal + tax; for no rows, subtotal, tax and total are 0.
C2_TotalsComputation ==
    /\ message \in {"form totals", "sample totals"} =>
          /\ \A k \in DOMAIN shown.items :
                shown.items[k].amount = shown.items[k].qty * shown.items[k].unit_price
          /\ shown.subtotal = AmountSum(shown.items)
          /\ IsPercentOf(shown.tax, shown.subtotal, tax_rate_input)
          /\ shown.total = shown.subtotal + shown.tax
    /\ message = "form totals" =>
          /\ Len(shown.items) = Len(item_widgets)
          /\ \A k \in DOMAIN item_widgets :
                /\ shown.items[k].name = item_widgets[k].name
                /\ shown.items[k].qty = item_widgets[k].qty
                /\ shown.items[k].unit_price = item_widgets[k].unit_price
          /\ (item_widgets = <<>> =>
                shown.subtotal = 0 /\ shown.tax = 0 /\ shown.total = 0)

\* the totals of the rows (Design, 2 at 25) and (blank, 1 at 25) at a rate
\* of 7 per cent: 75, 5.25 and 80.25
C2_Witness ==
    /\ message = "form totals"
    /\ item_widgets = << [name |-> "Design", qty |-> 2, unit_price |-> 25 * Den],
                         [name |-> "", qty |-> 1, unit_price |-> 25 * Den] >>
    /\ tax_rate_input = 7
    /\ shown.subtotal = 75 * Den
    /\ shown.tax = 5 * Den + Den \div 4
    /\ shown.total = 80 * Den + Den \div 4


\* C11: across any interleaving of generate_pdf calls in one process the
\* registration body of _register_korean_font (candidate search, download,
\* registerFont, writes to the font-name globals) is executed by at most
\* one call.
C11_RegistrationBodyRunsOnce ==
    Cardinality(body_runs) <= 1


\* the totals table and the items table of a document
TotalsTable(pdf) == Content(pdf, "totals")[1]
ItemsTable(pdf) == Content(pdf, "items")[1]

\* what a returned document shows for a record: the three totals and each
\* item's amount, as fmt_money writes the record's own fields
RendersGivenTotals(c) ==
    LET sym == CURRENCY_SYMBOLS[c.currency]
        tot == TotalsTable(c.pdf).rows
        its == ItemsTable(c.pdf).rows
    IN  /\ Len(tot) = 3
        /\ tot[1][3].lines = <<fmt_money(c.data.subtotal, sym)>>
        /\ tot[2][3].lines = <<fmt_money(c.data.tax, sym)>>
        /\ tot[3][3].lines = <<Bold(fmt_money(c.data.total, sym))>>
        /\ Len(its) = Len(c.data.items) + 1
        /\ \A k \in DOMAIN c.data.items :
              its[k + 1][5].lines = <<fmt_money(c.data.items[k].amount, sym)>>

\* C12: generate_pdf renders the totals it is given: the subtotal, tax and
\* total of the totals block are fmt_money of the record's subtotal, tax and
\* total fields and each item row shows the record's amount field, also
\* when the fields disagree with the items; the record the call was given
\* is the record it leaves.
C12_PureRenderer ==
    [][pending # <<>> =>
          /\ Len(calls') = 1
          /\ calls'[1].data = pending[1].data
          /\ calls'[1].raised = None => RendersGivenTotals(calls'[1])]_vars

\* a document for a record whose subtotal (7) is not the sum of its
\* amounts (1000 + 999), whose total (0.25) is not subtotal + tax, and whose
\* second amount (999) is not 2 * 500: it shows $7.00, $3.00, $0.25 and
\* $999.00
C12_Witness ==
    /\ calls # <<>>
    /\ calls[1].raised = None
    /\ calls[1].currency = "USD"
    /\ Len(calls[1].data.items) = 2
    /\ calls[1].data.items[2].amount # calls[1].data.items[2].qty * calls[1].data.items[2].unit_price
    /\ calls[1].data.subtotal = 7 * Den
    /\ TotalsTable(calls[1].pdf).rows[1][3].lines = << <<Dollar, "7", ".", "0", "0">> >>
    /\ TotalsTable(calls[1].pdf).rows[2][3].lines = << <<Dollar, "3", ".", "0", "0">> >>
    /\ TotalsTable(calls[1].pdf).rows[3][3].lines
          = << <<"<b>", Dollar, "0", ".", "2", "5", "</b>">> >>
    /\ ItemsTable(calls[1].pdf).rows[3][5].lines
          = << <<Dollar, "9", "9", "9", ".", "0", "0">> >>


\* a name that is empty or whitespace only
BlankName(name) == name \in {"", " "}

\* the rows of the form that carry a name, in row order
NamedRows == SelectSeq(item_widgets, LAMBDA r : ~BlankName(r.name))

\* what the Generate handler requires of the form
FormComplete ==
    /\ from_company # ""
    /\ to_company # ""
    /\ NamedRows # <<>>

\* C13: a Generate click calls generate_pdf only when the sender company
\* and the recipient company are non-empty and some item row has a
\* non-blank name; otherwise the error message is shown and no PDF is
\* generated.  The items passed are exactly the rows with a non-blank name,
\* in row order.
C13_GenerateValidates ==
    /\ Len(calls) <= 2
    /\ Len(calls) = 2 <=> message = "success"
    /\ message = "success" =>
          /\ FormComplete
          /\ Len(calls[2].data.items) = Len(NamedRows)
          /\ \A k \in DOMAIN NamedRows :
                /\ calls[2].data.items[k].name = NamedRows[k].name
                /\ calls[2].data.items[k].qty = NamedRows[k].qty
                /\ calls[2].data.items[k].unit_price = NamedRows[k].unit_price
    /\ message = "fill_warning" => ~FormComplete
    /\ (PageOpen /\ message = "") => Len(calls) = 1

\* a successful Generate on three rows, the second with a blank name: the
\* record carries the first and the third row
C13_Witness ==
    /\ message = "success"
    /\ item_count = 3
    /\ ~BlankName(item_widgets[1].name)
    /\ BlankName(item_widgets[2].name)
    /\ ~BlankName(item_widgets[3].name)
    /\ item_widgets[1].qty = 1
    /\ item_widgets[3].qty = 2
    /\ Len(calls[2].data.items) = 2
    /\ calls[2].data.items[1].qty = 1
    /\ calls[2].data.items[2].qty = 2

\* a sequence of rows without its row i (rows are counted from 0)
RowsWithout(rows, i) ==
    [k \in 1 .. (Len(rows) - 1) |-> IF k <= i THEN rows[k] ELSE rows[k + 1]]

\* C14: a click on the remove button of a row i > 0 leaves the previous
\* rows with exactly row i deleted: the other rows keep their name,
\* quantity and unit price, in their order.
C14_RemoveDeletesRow ==
    [][item_count' < item_count =>
          \E i \in 1 .. (item_count - 1) :
              item_widgets' = RowsWithout(item_widgets, i)]_vars


\* C15: after any sequence of add and remove clicks item_count is at least
\* 1 and equals 1 + (add clicks) - (remove clicks), and the form shows that
\* many rows, so at least one.
C15_ItemCount ==
    /\ item_count >= 1
    /\ item_count = 1 + clicks.add - clicks.remove
    /\ Len(item_widgets) = item_count

\* two rows added and both removed again: one row is left
C15_Witness ==
    /\ clicks = [add |-> 2, remove |-> 2]
    /\ item_count = 1
    /\ Len(item_widgets) = 1

===========================================================================
